---- MODULE Spec2Model ----
(***************************************************************************)
(* PathCollab utility scripts:                                             *)
(*   bench/scripts/compare_baseline.py  (benchmark baseline comparator)    *)
(*   bench/scripts/generate_report.py   (markdown report generator)        *)
(*   scripts/generate_fixtures.py       (deep-zoom fixture generator)      *)
(* Each script is a single-threaded run from its arguments and the files   *)
(* it reads to its exit code and the files it writes.  Numbers are exact   *)
(* integers; a percentage change is an exact fraction num/den.             *)
(***************************************************************************)
EXTENDS Integers, Sequences, FiniteSets, TLC

VARIABLES
    \* compare_baseline.py: one run of main()
    args,              \* parsed command line
    fs,                \* path -> file (absent, malformed, or JSON text)
    clock,             \* what datetime.utcnow() returns
    pc,                \* "main", "compared", "exit"
    exit_code,         \* Running until sys.exit or an uncaught exception
    loaded,            \* paths load_json was called on
    out,               \* tags of the messages printed
    current_metrics,   \* extract_metrics(current_data)
    baseline_metrics,  \* extract_metrics(baseline_data)
    passed,            \* compare_metrics' first result
    rows               \* compare_metrics' table rows, in emission order

cmpVars == <<args, fs, clock, pc, exit_code, loaded, out,
             current_metrics, baseline_metrics, passed, rows>>

VARIABLES
    \* generate_report.py: one run of main()
    rep_args,          \* input_dir (does it exist) and --output
    rep_files,         \* the four input files of the run directory
    rep_pc,            \* the next section to render, "write", "exit"
    rep_exit,          \* exit code, Running until the process ends
    lines,             \* generate_report's lines so far
    tile_data,         \* load_json_safe(tile_stress.json)
    ws_text,           \* load_text_safe(websocket_load.txt)
    ws_data,           \* parse_websocket_output(ws_text), or {}
    rep_written,       \* the report written to --output, or NoReport
    rep_stdout,        \* the report printed, or NoReport
    rep_stderr         \* messages on standard error

repVars == <<rep_args, rep_files, rep_pc, rep_exit, lines, tile_data, ws_text,
             ws_data, rep_written, rep_stdout, rep_stderr>>

VARIABLES
    \* generate_fixtures.py: one run of main()
    fx_args,           \* size (slide_size) and tile_size
    gen,               \* "slide", then "overlay", then "done"
    fx_pc,             \* "setup", "level", "tiles" within a generator
    max_level,
    level,             \* loop variable of "for level in range(max_level + 1)"
    level_width,
    level_height,
    tiles_x,
    tiles_y,
    tx,                \* loop variables of the tile loops
    ty,
    fixtures,          \* per generator: the files written
    fx_out,            \* the "Level ..." lines printed
    fx_run,            \* 1 in the first run of the script, 2 in the second
    first_run          \* what the first run wrote and printed

fxVars == <<fx_args, gen, fx_pc, max_level, level, level_width, level_height,
            tiles_x, tiles_y, tx, ty, fixtures, fx_out, fx_run, first_run>>

vars == <<cmpVars, repVars, fxVars>>

----------------------------------------------------------------------------
(* Bounds of the model *)

\* largest number of entries of a generated mapping (metrics, summary, ...)
MaxMetrics == 2

\* largest number of benchmark lines in micro_benchmarks.txt
MaxBenchmarks == 2

\* fixtures are generated for sizes 1..MaxSize and tile sizes 1..MaxTileSize,
\* and for the sizes main() uses
MaxSize == 5
MaxTileSize == 3

----------------------------------------------------------------------------
(* Small helpers *)

None == "None"
Running == -1
EmptyMap == [k \in {} |-> 0]

\* dict.update: entries of n override those of m
Update(m, n) ==
    [k \in (DOMAIN m) \cup (DOMAIN n) |-> IF k \in DOMAIN n THEN n[k] ELSE m[k]]

\* dict.get(k, default)
Get(m, k, default) == IF k \in DOMAIN m THEN m[k] ELSE default

\* all mappings from at most n keys of K to values in V
SubMaps(K, V, n) ==
    UNION {[S -> V] : S \in {T \in SUBSET K : Cardinality(T) <= n}}

Abs(x) == IF x < 0 THEN -x ELSE x

----------------------------------------------------------------------------
(* JSON files: json.dump / json.load *)

\* keys whose JSON value is itself an object in the documents handled here
ObjectKeys ==
    {"summary", "latencyPercentiles", "latencyDistribution", "percentiles",
     "metrics", "raw_data", "statusCodeDistribution"}

\* the order in which the members of an object are written
KeyOrder ==
    <<"created_at", "description", "summary", "latencyPercentiles",
      "latencyDistribution", "percentiles", "metrics", "raw_data",
      "requestsPerSec", "successRate", "p50", "p90", "p95", "p99", "p999",
      "errors", "p50_ms", "p90_ms", "p95_ms", "p999_ms", "p99_ms",
      "requests_per_sec", "success_rate",
      "total", "p75", "statusCodeDistribution", "200", "404", "500",
      "cpu_percent", "memory_mb">>

RECURSIVE JsonDump(_)
\* json.dump: an object becomes the sequence of its <<key, value>> members
JsonDump(obj) ==
    LET keys == SelectSeq(KeyOrder, LAMBDA k : k \in DOMAIN obj)
    IN  [i \in 1..Len(keys) |->
            <<keys[i],
              IF keys[i] \in ObjectKeys THEN JsonDump(obj[keys[i]])
                                        ELSE obj[keys[i]]>>]

RECURSIVE JsonLoad(_)
\* json.load: the members become a dict; a repeated key keeps its last value
JsonLoad(text) ==
    LET keys == {text[i][1] : i \in 1..Len(text)}
        last(k) == CHOOSE i \in 1..Len(text) :
                      /\ text[i][1] = k
                      /\ \A j \in 1..Len(text) : text[j][1] = k => j <= i
    IN  [k \in keys |->
            IF k \in ObjectKeys THEN JsonLoad(text[last(k)][2])
                                ELSE text[last(k)][2]]

Absent == [kind |-> "absent", text |-> <<>>]
Malformed == [kind |-> "malformed", text |-> <<>>]
JsonFile(obj) == [kind |-> "json", text |-> JsonDump(obj)]

\* Path.exists()
Exists(path) == fs[path].kind # "absent"

\* load_json succeeds: the file is there and json.load accepts it
Loadable(path) == fs[path].kind = "json"

\* load_json
load_json(path) == JsonLoad(fs[path].text)

\* save_json: the file system after writing data to path
save_json(data, path) == [fs EXCEPT ![path] = JsonFile(data)]

----------------------------------------------------------------------------
(* compare_baseline.py: extract_metrics *)

\* the percentile entries both latency shapes produce (seconds -> ms)
LatencyMs(lat) ==
    [p50_ms |-> Get(lat, "p50", 0) * 1000,
     p90_ms |-> Get(lat, "p90", 0) * 1000,
     p95_ms |-> Get(lat, "p95", 0) * 1000,
     p99_ms |-> Get(lat, "p99", 0) * 1000]

\* 'summary' in data
FromSummary(data) ==
    IF "summary" \in DOMAIN data
    THEN [requests_per_sec |-> Get(data["summary"], "requestsPerSec", 0),
          success_rate |-> Get(data["summary"], "successRate", 1) * 100]
    ELSE EmptyMap

\* 'latencyPercentiles' in data
FromLatencyPercentiles(data) ==
    IF "latencyPercentiles" \in DOMAIN data
    THEN LET lat == data["latencyPercentiles"]
         IN  Update(LatencyMs(lat),
                    IF "p999" \in DOMAIN lat
                    THEN [p999_ms |-> lat["p999"] * 1000]
                    ELSE EmptyMap)
    ELSE EmptyMap

\* 'latencyDistribution' in data and 'percentiles' in it
FromLatencyDistribution(data) ==
    IF /\ "latencyDistribution" \in DOMAIN data
       /\ "percentiles" \in DOMAIN data["latencyDistribution"]
    THEN LatencyMs(data["latencyDistribution"]["percentiles"])
    ELSE EmptyMap

\* 'metrics' in data: passed through, already in the right units
FromMetrics(data) ==
    IF "metrics" \in DOMAIN data THEN data["metrics"] ELSE EmptyMap

\* slip: the 'metrics' mapping is taken first and the shapes written over it
ExtractMetricsShapesLast(data) ==
    Update(Update(Update(FromMetrics(data),
                         FromSummary(data)),
                  FromLatencyPercentiles(data)),
           FromLatencyDistribution(data))

extract_metrics(data) ==
    Update(Update(Update(FromSummary(data),
                         FromLatencyPercentiles(data)),
                  FromLatencyDistribution(data)),
           FromMetrics(data))

\* create_baseline(results, description) at time now
BaselineWithRawMetrics(results, description, now) ==
    [created_at |-> now,
     description |-> description,
     metrics |-> FromMetrics(results),
     raw_data |-> results]

create_baseline(results, description, now) ==
    [created_at |-> now,
     description |-> description,
     metrics |-> extract_metrics(results),
     raw_data |-> results]

----------------------------------------------------------------------------
(* compare_baseline.py: compare_metrics *)

lower_is_better == {"p50_ms", "p90_ms", "p95_ms", "p99_ms", "p999_ms"}
higher_is_better == {"requests_per_sec", "success_rate"}

\* sorted() on the metric names the model uses: their order as Python strings
NameOrder ==
    <<"errors", "p50_ms", "p90_ms", "p95_ms", "p999_ms", "p99_ms",
      "requests_per_sec", "success_rate">>

\* slip: no sort, the names in dict order (current's keys, then the rest)
UnsortedMetrics(current, baseline) ==
    SelectSeq(NameOrder, LAMBDA k : k \in DOMAIN current)
      \o SelectSeq(NameOrder,
                   LAMBDA k : k \in DOMAIN baseline /\ k \notin DOMAIN current)

\* sorted(set(current.keys()) | set(baseline.keys()))
SortedMetrics(current, baseline) ==
    SelectSeq(NameOrder, LAMBDA k : k \in (DOMAIN current) \cup (DOMAIN baseline))

\* a finite change n/d (d # 0), kept with a positive denominator
Frac(n, d) ==
    IF d < 0 THEN [inf |-> FALSE, num |-> -n, den |-> -d]
             ELSE [inf |-> FALSE, num |-> n, den |-> d]

\* float('inf')
Inf == [inf |-> TRUE, num |-> 1, den |-> 1]

\* slips of the change computation
ChangeRelativeToCurrent(curr_val, base_val) ==
    IF base_val = 0
    THEN IF curr_val = 0 THEN Frac(0, 1) ELSE Inf
    ELSE IF curr_val = 0 THEN Inf
         ELSE Frac((curr_val - base_val) * 100, curr_val)

ChangeZeroBaselineIsZero(curr_val, base_val) ==
    IF base_val = 0
    THEN Frac(0, 1)
    ELSE Frac((curr_val - base_val) * 100, base_val)

\* change_pct of one metric
ChangePct(curr_val, base_val) ==
    IF base_val = 0
    THEN IF curr_val = 0 THEN Frac(0, 1) ELSE Inf
    ELSE Frac((curr_val - base_val) * 100, base_val)

\* slip: >= for >
GtOrEqual(change, t) == change.inf \/ change.num >= t * change.den

\* change > t, change < t for a number t
Gt(change, t) == change.inf \/ change.num > t * change.den
Lt(change, t) == ~change.inf /\ change.num < t * change.den

\* abs(change) < t
AbsLt(change, t) ==
    ~change.inf /\ Abs(change.num) < t * change.den

\* slip: every known metric regresses upwards
IsRegressionUpwards(metric, change, threshold_pct) ==
    metric \in lower_is_better \cup higher_is_better /\ Gt(change, threshold_pct)

IsRegression(metric, change, threshold_pct) ==
    IF metric \in lower_is_better /\ Gt(change, threshold_pct) THEN TRUE
    ELSE IF metric \in higher_is_better /\ Lt(change, -threshold_pct) THEN TRUE
    ELSE FALSE

\* round n/d (d > 0) to the nearest integer, ties to even
RoundHalfEven(n, d) ==
    LET q == n \div d
        r == n % d
    IN  IF 2 * r < d THEN q
        ELSE IF 2 * r > d THEN q + 1
        ELSE IF q % 2 = 0 THEN q ELSE q + 1

\* f"{v:.1f}" followed by the metric's unit; the number is kept in tenths
FormatValue(metric, v) ==
    [tenths |-> RoundHalfEven(v * 10, 1),
     unit |-> IF metric \in {"p50_ms", "p90_ms", "p95_ms", "p99_ms", "p999_ms"}
              THEN "ms"
              ELSE IF metric = "success_rate" THEN "%" ELSE ""]

\* change_str: "N/A", or the sign and the change in tenths of a percent
FormatChange(change) ==
    IF change.inf
    THEN [text |-> "N/A", sign |-> "", tenths |-> 0]
    ELSE [text |-> "pct",
          sign |-> IF change.num > 0 THEN "+" ELSE "",
          tenths |-> RoundHalfEven(change.num * 10, change.den)]

Status(metric, change, is_regression) ==
    IF is_regression THEN "REGRESSED"
    ELSE IF AbsLt(change, 5) THEN "OK"
    ELSE IF metric \in lower_is_better /\ Lt(change, 0) THEN "IMPROVED"
    ELSE IF metric \in higher_is_better /\ Gt(change, 0) THEN "IMPROVED"
    ELSE "CHANGED"

\* one pass of the loop body: the row of one metric
Row(metric, current, baseline, threshold_pct) ==
    LET curr_val == Get(current, metric, 0)
        base_val == Get(baseline, metric, 0)
        change_pct == ChangePct(curr_val, base_val)
        is_regression == IsRegression(metric, change_pct, threshold_pct)
    IN  [metric |-> metric,
         curr_val |-> curr_val,
         base_val |-> base_val,
         change_pct |-> change_pct,
         base_str |-> FormatValue(metric, base_val),
         curr_str |-> FormatValue(metric, curr_val),
         change_str |-> FormatChange(change_pct),
         status |-> Status(metric, change_pct, is_regression)]

\* slip: any regressed metric fails the run
FailsOnAnyRegression(row) == row.status = "REGRESSED"

\* "Only fail on P99 regression"
FailsRun(row) == row.status = "REGRESSED" /\ row.metric = "p99_ms"

RECURSIVE PassedAfter(_, _)
\* the value of passed after the first n rows
PassedAfter(rs, n) ==
    IF n = 0 THEN TRUE
    ELSE IF FailsRun(rs[n]) THEN FALSE
    ELSE PassedAfter(rs, n - 1)

compare_metrics(current, baseline, threshold_pct) ==
    LET names == SortedMetrics(current, baseline)
        rs == [i \in 1..Len(names) |->
                  Row(names[i], current, baseline, threshold_pct)]
    IN  [passed |-> PassedAfter(rs, Len(rs)), rows |-> rs]

----------------------------------------------------------------------------
(* compare_baseline.py: the inputs of a run *)

ResultsPath == "results.json"
BaselinePath == "baseline.json"
Paths == {ResultsPath, BaselinePath}

\* --threshold: its default, and 0
DefaultThreshold == 10
Thresholds == {0, DefaultThreshold}

Times == {"2026-01-01T00:00:00Z", "2026-01-02T00:00:00Z"}
\* --description: its default
Descriptions == {""}

\* metric names: an unknown one, two latencies, one throughput
MetricNames == {"errors", "p50_ms", "p99_ms", "requests_per_sec"}
CurVals == {0, 50, 52, 60}
BaseVals == {0, 50, 60}

CurrentMappings == SubMaps(MetricNames, CurVals, MaxMetrics)
BaselineMappings == SubMaps(MetricNames, BaseVals, MaxMetrics)

\* results documents that already carry a "metrics" mapping
CurrentDocs == {[metrics |-> m] : m \in CurrentMappings}

\* baseline documents as save mode writes them
BaselineDocs ==
    {[created_at |-> "2025-12-31T00:00:00Z", description |-> "",
      metrics |-> m, raw_data |-> EmptyMap] : m \in BaselineMappings}

\* results documents in the load-test tool's shapes (latencies in seconds)
SummaryParts ==
    {EmptyMap} \cup
    {[summary |-> m] : m \in SubMaps({"requestsPerSec", "successRate"}, {1, 2}, MaxMetrics)}
LatencyParts ==
    {EmptyMap} \cup
    {[latencyPercentiles |-> m] : m \in SubMaps({"p50", "p99", "p999"}, {2}, MaxMetrics)}
DistributionParts ==
    {EmptyMap, [latencyDistribution |-> EmptyMap]} \cup
    {[latencyDistribution |-> [percentiles |-> m]] : m \in SubMaps({"p99"}, {1, 3}, MaxMetrics)}
MetricsParts ==
    {EmptyMap} \cup
    {[metrics |-> m] : m \in SubMaps({"errors", "p99_ms"}, {7}, MaxMetrics)}

ResultsDocs ==
    {Update(Update(Update(a, b), c), d) :
        a \in SummaryParts, b \in LatencyParts,
        c \in DistributionParts, d \in MetricsParts}

FilesOf(docs) == {Absent, Malformed} \cup {JsonFile(d) : d \in docs}

\* a baseline saved by an earlier run, there when save mode is given --baseline
OldBaseline ==
    [created_at |-> "2025-12-31T00:00:00Z", description |-> "",
     metrics |-> [k \in {"p99_ms"} |-> 50], raw_data |-> EmptyMap]

----------------------------------------------------------------------------
(* compare_baseline.py: main *)

InitCmp ==
    /\ \/ /\ args \in [save_baseline : {ResultsPath},
                       output : {None, BaselinePath},
                       current : {None, ResultsPath},
                       baseline : {None, BaselinePath},
                       threshold : {DefaultThreshold},
                       description : Descriptions]
          /\ \E f \in FilesOf(ResultsDocs) :
                fs = [p \in Paths |->
                        IF p = ResultsPath THEN f
                        ELSE IF args.baseline = None THEN Absent
                        ELSE JsonFile(OldBaseline)]
          /\ clock \in Times
       \/ /\ args \in [save_baseline : {None},
                       output : {None, BaselinePath},
                       current : {None, ResultsPath},
                       baseline : {None, BaselinePath},
                       threshold : {DefaultThreshold},
                       description : {""}]
          /\ args.current = None \/ args.baseline = None
          /\ fs \in [Paths -> {Absent, JsonFile([metrics |-> EmptyMap])}]
          /\ clock \in Times
       \/ /\ args \in [save_baseline : {None},
                       output : {None},
                       current : {ResultsPath},
                       baseline : {BaselinePath},
                       threshold : Thresholds,
                       description : {""}]
          /\ \E c \in FilesOf(CurrentDocs), b \in FilesOf(BaselineDocs) :
                fs = [p \in Paths |-> IF p = ResultsPath THEN c ELSE b]
          /\ clock = CHOOSE t \in Times : TRUE
    /\ pc = "main"
    /\ exit_code = Running
    /\ loaded = {}
    /\ out = <<>>
    /\ current_metrics = EmptyMap
    /\ baseline_metrics = EmptyMap
    /\ passed = TRUE
    /\ rows = <<>>

\* sys.exit(code), or an uncaught exception (the interpreter exits with 1)
Exit(code) ==
    /\ pc' = "exit"
    /\ exit_code' = code

\* save mode without --output
SaveWithoutOutput ==
    /\ pc = "main"
    /\ args.save_baseline # None
    /\ args.output = None
    /\ out' = Append(out, "ERROR --output required with --save-baseline")
    /\ Exit(1)
    /\ UNCHANGED <<args, fs, clock, loaded, current_metrics, baseline_metrics,
                   passed, rows>>

\* save mode: load_json raises (no such file, or not JSON)
SaveLoadFails ==
    /\ pc = "main"
    /\ args.save_baseline # None
    /\ args.output # None
    /\ ~Loadable(args.save_baseline)
    /\ loaded' = loaded \cup {args.save_baseline}
    /\ out' = Append(out, "Traceback")
    /\ Exit(1)
    /\ UNCHANGED <<args, fs, clock, current_metrics, baseline_metrics,
                   passed, rows>>

\* save mode: load the results, create the baseline, save it
SaveBaseline ==
    /\ pc = "main"
    /\ args.save_baseline # None
    /\ args.output # None
    /\ Loadable(args.save_baseline)
    /\ LET results == load_json(args.save_baseline)
           baseline == create_baseline(results, args.description, clock)
       IN  fs' = save_json(baseline, args.output)
    /\ loaded' = loaded \cup {args.save_baseline}
    /\ out' = Append(out, "OK Saved baseline")
    /\ Exit(0)
    /\ UNCHANGED <<args, clock, current_metrics, baseline_metrics,
                   passed, rows>>

\* comparison mode without --current or without --baseline
MissingArgument ==
    /\ pc = "main"
    /\ args.save_baseline = None
    /\ args.current = None \/ args.baseline = None
    /\ out' = Append(out, "help")
    /\ Exit(1)
    /\ UNCHANGED <<args, fs, clock, loaded, current_metrics, baseline_metrics,
                   passed, rows>>

CurrentNotFound ==
    /\ pc = "main"
    /\ args.save_baseline = None
    /\ args.current # None /\ args.baseline # None
    /\ ~Exists(args.current)
    /\ out' = Append(out, "ERROR Current results not found")
    /\ Exit(1)
    /\ UNCHANGED <<args, fs, clock, loaded, current_metrics, baseline_metrics,
                   passed, rows>>

\* slip: the baseline's existence is checked before the current file's
BaselineCheckedFirst ==
    /\ pc = "main"
    /\ args.save_baseline = None
    /\ args.current # None /\ args.baseline # None
    /\ ~Exists(args.baseline)
    /\ out' = Append(out, "WARN Baseline not found")
    /\ Exit(0)
    /\ UNCHANGED <<args, fs, clock, loaded, current_metrics, baseline_metrics,
                   passed, rows>>

BaselineNotFound ==
    /\ pc = "main"
    /\ args.save_baseline = None
    /\ args.current # None /\ args.baseline # None
    /\ Exists(args.current)
    /\ ~Exists(args.baseline)
    /\ out' = Append(out, "WARN Baseline not found")
    /\ Exit(0)
    /\ UNCHANGED <<args, fs, clock, loaded, current_metrics, baseline_metrics,
                   passed, rows>>

\* comparison mode: one of the two load_json calls raises
CompareLoadFails ==
    /\ pc = "main"
    /\ args.save_baseline = None
    /\ args.current # None /\ args.baseline # None
    /\ Exists(args.current) /\ Exists(args.baseline)
    /\ ~Loadable(args.current) \/ ~Loadable(args.baseline)
    /\ loaded' = loaded \cup
                   (IF Loadable(args.current)
                    THEN {args.current, args.baseline} ELSE {args.current})
    /\ out' = Append(out, "Traceback")
    /\ Exit(1)
    /\ UNCHANGED <<args, fs, clock, current_metrics, baseline_metrics,
                   passed, rows>>

\* slip: the comparison does not look at --save-baseline
LoadAndCompareAnyMode ==
    /\ pc = "main"
    /\ args.current # None /\ args.baseline # None
    /\ Exists(args.current) /\ Exists(args.baseline)
    /\ Loadable(args.current) /\ Loadable(args.baseline)
    /\ LET cur == extract_metrics(load_json(args.current))
           base == extract_metrics(load_json(args.baseline))
           res == compare_metrics(cur, base, args.threshold)
       IN  /\ current_metrics' = cur
           /\ baseline_metrics' = base
           /\ passed' = res.passed
           /\ rows' = res.rows
    /\ loaded' = loaded \cup {args.current, args.baseline}
    /\ pc' = "compared"
    /\ UNCHANGED <<args, fs, clock, exit_code, out>>

\* comparison mode: load both documents, extract and compare
LoadAndCompare ==
    /\ pc = "main"
    /\ args.save_baseline = None
    /\ args.current # None /\ args.baseline # None
    /\ Exists(args.current) /\ Exists(args.baseline)
    /\ Loadable(args.current) /\ Loadable(args.baseline)
    /\ LET cur == extract_metrics(load_json(args.current))
           base == extract_metrics(load_json(args.baseline))
           res == compare_metrics(cur, base, args.threshold)
       IN  /\ current_metrics' = cur
           /\ baseline_metrics' = base
           /\ passed' = res.passed
           /\ rows' = res.rows
    /\ loaded' = loaded \cup {args.current, args.baseline}
    /\ pc' = "compared"
    /\ UNCHANGED <<args, fs, clock, exit_code, out>>

\* slip: the exit code ignores the comparison
ExitCodeAlwaysZero(ok) == 0

\* 0 if passed else 1
ExitCodeOf(ok) == IF ok THEN 0 ELSE 1

\* print the outcome; sys.exit(0 if passed else 1)
ReportAndExit ==
    /\ pc = "compared"
    /\ out' = Append(out, IF passed THEN "PASSED" ELSE "FAILED")
    /\ Exit(ExitCodeOf(passed))
    /\ UNCHANGED <<args, fs, clock, loaded, current_metrics, baseline_metrics,
                   passed, rows>>

\* after a save run the script is run again in comparison mode: the results
\* file just saved from is --current, the baseline just written is --baseline
CompareAfterSave ==
    /\ pc = "exit"
    /\ args.save_baseline # None /\ args.output # None
    /\ exit_code = 0
    /\ \E t \in Thresholds :
          args' = [save_baseline |-> None, output |-> None,
                   current |-> args.save_baseline, baseline |-> args.output,
                   threshold |-> t, description |-> ""]
    /\ pc' = "main"
    /\ exit_code' = Running
    /\ loaded' = {}
    /\ out' = <<>>
    /\ UNCHANGED <<fs, clock, current_metrics, baseline_metrics, passed, rows>>


----------------------------------------------------------------------------
(* generate_report.py: files and parsers *)

TextFile(t) == [kind |-> "text", text |-> t]

\* the value a safe loader returns: None, or what it read
NoneValue == [none |-> TRUE, value |-> EmptyMap]
Some(v) == [none |-> FALSE, value |-> v]

\* load_json_safe: None when the file is missing or is not JSON
load_json_safe(file) ==
    IF file.kind = "json" THEN Some(JsonLoad(file.text)) ELSE NoneValue

\* load_text_safe: None when the file is missing
load_text_safe(file) ==
    IF file.kind = "text" THEN Some(file.text) ELSE NoneValue

\* "if tile_data:", "if metrics_data:" -- neither None nor an empty dict
TruthyDict(v) == ~v.none /\ DOMAIN v.value # {}

\* "if ws_text:", "if micro_text:" -- neither None nor an empty string
TruthyText(v) == ~v.none /\ ~v.value.empty

\* parse_websocket_output; a text records which of its patterns match
parse_websocket_output(text) ==
    [passed |-> text.pass,
     messages_sent |-> IF "sent" \in text.found THEN text.sent ELSE 0,
     messages_received |-> IF "received" \in text.found THEN text.received ELSE 0,
     found |-> text.found \cap {"cursor_p99", "viewport_p99"},
     cursor_p99 |-> text.cursor_p99,
     viewport_p99 |-> text.viewport_p99]

\* to_us, with durations kept in nanoseconds (1 us = 1000)
to_us(val, unit) ==
    IF unit = "ns" THEN val
    ELSE IF unit = "us" THEN val * 1000
    ELSE IF unit = "ms" THEN val * 1000000
    ELSE IF unit = "s" THEN val * 1000000000
    ELSE val * 1000

\* parse_criterion_output: one entry per line the pattern matches
parse_criterion_output(text) ==
    [i \in 1..Len(text.matches) |->
        LET m == text.matches[i]
        IN  [name |-> m.name,
             low_us |-> to_us(m.low, m.low_unit),
             mid_us |-> to_us(m.mid, m.mid_unit),
             high_us |-> to_us(m.high, m.high_unit)]]

\* format_duration of a duration in nanoseconds: hundredths of the unit
format_duration(ns) ==
    IF ns < 1000 THEN [hundredths |-> ns * 100, unit |-> "ns"]
    ELSE IF ns < 1000000 THEN [hundredths |-> RoundHalfEven(ns, 10), unit |-> "us"]
    ELSE IF ns < 1000000000
         THEN [hundredths |-> RoundHalfEven(ns, 10000), unit |-> "ms"]
    ELSE [hundredths |-> RoundHalfEven(ns, 10000000), unit |-> "s"]

----------------------------------------------------------------------------
(* generate_report.py: generate_report, section by section *)

\* a line of the report: the f-string's fixed text and the values it shows
Line(text, values) == [text |-> text, values |-> values]
L(text) == Line(text, <<>>)

NoReport == <<>>

HeaderLines(now, dirname) ==
    <<L("# PathCollab Benchmark Report"), L(""),
      Line("**Generated:** {} UTC", <<now>>),
      Line("**Run directory:** {}", <<dirname>>),
      L(""),
      L("## Table of Contents"),
      L("- [Summary](#summary)"),
      L("- [HTTP Tile Performance](#http-tile-performance)"),
      L("- [WebSocket Performance](#websocket-performance)"),
      L("- [Micro-benchmarks](#micro-benchmarks)"),
      L("- [Server Metrics](#server-metrics)"),
      L("")>>

\* tile_data.get(section, {}).get(key, default)
TileGet(td, section, key, default) ==
    Get(Get(td.value, section, EmptyMap), key, default)

SummaryLines(td, wt, wd) ==
    LET p99 == TileGet(td, "latencyPercentiles", "p99", 0) * 1000
        tile_status ==
            IF TruthyDict(td)
            THEN IF p99 < 100 THEN "PASS" ELSE "FAIL (P99 > 100ms)"
            ELSE "No data"
        tile_item ==
            IF TruthyDict(td)
            THEN Line("- **Tile serving:** {:.0f} req/s, P99: {:.1f}ms, Success: {:.1f}%",
                      <<TileGet(td, "summary", "requestsPerSec", 0), p99,
                        TileGet(td, "summary", "successRate", 1) * 100>>)
            ELSE L("- **Tile serving:** No data collected")
        ws_passed == Get(wd, "passed", FALSE)
        ws_status ==
            IF ws_passed THEN "PASS"
            ELSE IF TruthyText(wt) THEN "FAIL" ELSE "No data"
        ws_item ==
            IF ws_passed
            THEN Line("- **WebSocket:** P99 cursor: {}, P99 viewport: {}",
                      <<wd.found, wd.cursor_p99, wd.viewport_p99>>)
            ELSE IF TruthyText(wt) THEN L("- **WebSocket:** Test failed")
            ELSE L("- **WebSocket:** No data collected")
    IN  <<L("## Summary"), L(""),
          L("| Component | Status |"),
          L("|-----------|--------|"),
          Line("| HTTP Tile Serving | {} |", <<tile_status>>),
          Line("| WebSocket Broadcasting | {} |", <<ws_status>>),
          L(""),
          tile_item, ws_item,
          L("")>>

Percentiles == <<"p50", "p75", "p90", "p95", "p99", "p999">>

\* sorted(status_dist.items()) for the status codes the model uses
StatusCodeOrder == <<"200", "404", "500">>

TileLines(td) ==
    <<L("## HTTP Tile Performance"), L("")>> \o
    (IF TruthyDict(td)
     THEN LET status_dist == Get(td.value, "statusCodeDistribution", EmptyMap)
              codes == SelectSeq(StatusCodeOrder, LAMBDA c : c \in DOMAIN status_dist)
          IN  <<L("### Throughput"), L(""),
                Line("- **Requests/sec:** {:.1f}",
                     <<TileGet(td, "summary", "requestsPerSec", 0)>>),
                Line("- **Total requests:** {}", <<TileGet(td, "summary", "total", 0)>>),
                Line("- **Success rate:** {:.1f}%",
                     <<TileGet(td, "summary", "successRate", 1) * 100>>),
                L(""),
                L("### Latency Distribution"), L(""),
                L("| Percentile | Latency |"),
                L("|------------|---------|")>> \o
              [i \in 1..Len(Percentiles) |->
                  Line("| {} | {:.2f}ms |",
                       <<Percentiles[i],
                         TileGet(td, "latencyPercentiles", Percentiles[i], 0) * 1000>>)] \o
              <<L("")>> \o
              (IF DOMAIN status_dist # {}
               THEN <<L("### Status Codes"), L(""),
                      L("| Code | Count |"),
                      L("|------|-------|")>> \o
                    [i \in 1..Len(codes) |->
                        Line("| {} | {} |", <<codes[i], status_dist[codes[i]]>>)] \o
                    <<L("")>>
               ELSE <<>>)
     ELSE <<L("*No HTTP tile performance data available.*"), L("")>>)

WsLines(wt, wd) ==
    <<L("## WebSocket Performance"), L("")>> \o
    (IF TruthyText(wt)
     THEN <<L("### Results"), L(""),
            Line("- **Status:** {}", <<IF Get(wd, "passed", FALSE) THEN "PASS" ELSE "FAIL">>),
            Line("- **Messages sent:** {}", <<wd.messages_sent>>),
            Line("- **Messages received:** {}", <<wd.messages_received>>),
            Line("- **Cursor P99:** {}", <<"cursor_p99" \in wd.found, wd.cursor_p99>>),
            Line("- **Viewport P99:** {}", <<"viewport_p99" \in wd.found, wd.viewport_p99>>),
            L(""),
            L("<details>"), L("<summary>Raw Output</summary>"), L(""), L("(code fence)"),
            Line(IF wt.value.marker THEN "{ws_text[start:start + 1500]}"
                                    ELSE "{ws_text[:1500]}", <<wt.value>>),
            L("(code fence)"), L("</details>"), L("")>>
     ELSE <<L("*No WebSocket performance data available.*"), L("")>>)

\* sorted(groups.items()) and .replace('_', ' ').title() for the groups used
GroupOrder == <<"jpeg_encoding", "startup">>
GroupTitle == [jpeg_encoding |-> "Jpeg Encoding", startup |-> "Startup"]

\* the table of one group: its benchmarks in the order they were parsed
GroupLines(group_name, benchmarks) ==
    LET items == SelectSeq(benchmarks, LAMBDA b : b.name.group = group_name)
    IN  <<Line("### {}", <<GroupTitle[group_name]>>), L(""),
          L("| Benchmark | Time (median) | Range |"),
          L("|-----------|---------------|-------|")>> \o
        [i \in 1..Len(items) |->
            Line("| {} | {} | {} - {} |",
                 <<IF items[i].name.rest # "" THEN items[i].name.rest
                                              ELSE items[i].name.group,
                   format_duration(items[i].mid_us),
                   format_duration(items[i].low_us),
                   format_duration(items[i].high_us)>>)] \o
        <<L("")>>

RECURSIVE Flatten(_)
Flatten(seqs) ==
    IF seqs = <<>> THEN <<>> ELSE Head(seqs) \o Flatten(Tail(seqs))

\* slip: nothing is written for a missing micro-benchmark file
MicroLinesNoPlaceholder(mt) ==
    <<L("## Micro-benchmarks"), L("")>> \o
    (IF TruthyText(mt)
     THEN <<L("*Could not parse benchmark results.*"), L("")>>
     ELSE <<>>)

MicroLines(mt) ==
    <<L("## Micro-benchmarks"), L("")>> \o
    (IF TruthyText(mt)
     THEN LET benchmarks == parse_criterion_output(mt.value)
              groups == SelectSeq(GroupOrder,
                           LAMBDA g : \E i \in 1..Len(benchmarks) :
                                         benchmarks[i].name.group = g)
          IN  IF Len(benchmarks) > 0
              THEN Flatten([i \in 1..Len(groups) |-> GroupLines(groups[i], benchmarks)])
              ELSE <<L("*Could not parse benchmark results.*"), L("")>>
     ELSE <<L("*No micro-benchmark data available.*"), L("")>>)

\* sorted(metrics_data.items()) for the server metrics the model uses
ServerKeyOrder == <<"cpu_percent", "memory_mb">>

ServerLines(md) ==
    <<L("## Server Metrics"), L("")>> \o
    (IF TruthyDict(md)
     THEN LET keys == SelectSeq(ServerKeyOrder, LAMBDA k : k \in DOMAIN md.value)
          IN  <<L("| Metric | Value |"), L("|--------|-------|")>> \o
              [i \in 1..Len(keys) |-> Line("| {} | {} |", <<keys[i], md.value[keys[i]]>>)] \o
              <<L("")>>
     ELSE <<L("*No server metrics available.*"), L("")>>)

FooterLines ==
    <<L("---"), L(""),
      L("*Report generated by bench/scripts/generate_report.py*")>>

----------------------------------------------------------------------------
(* generate_report.py: the inputs of a run *)

ReportPath == "REPORT.md"

TileDocs ==
    {Update(Update(a, b), c) :
        a \in {EmptyMap,
               [summary |-> [requestsPerSec |-> 50, total |-> 100, successRate |-> 1]]},
        b \in {EmptyMap, [latencyPercentiles |-> [p50 |-> 0, p99 |-> 1]]},
        c \in {EmptyMap,
               [statusCodeDistribution |-> ("200" :> 100) @@ ("404" :> 1)]}}

TileFiles == {Absent, Malformed} \cup {JsonFile(d) : d \in TileDocs}

EmptyText ==
    [empty |-> TRUE, pass |-> FALSE, marker |-> FALSE, found |-> {},
     sent |-> 0, received |-> 0, cursor_p99 |-> "", viewport_p99 |-> ""]

WsTexts ==
    {[empty |-> FALSE, pass |-> p, marker |-> m,
      found |-> IF m THEN {"sent", "received", "cursor_p99", "viewport_p99"} ELSE {},
      sent |-> 10, received |-> 9, cursor_p99 |-> "12ms", viewport_p99 |-> "15ms"] :
        p \in BOOLEAN, m \in BOOLEAN}

WsFiles == {Absent, TextFile(EmptyText)} \cup {TextFile(t) : t \in WsTexts}

\* lines of Criterion output that the pattern matches
BenchLines ==
    {[name |-> [group |-> "jpeg_encoding", rest |-> "256x256/85"],
      low |-> 480, low_unit |-> "ns", mid |-> 125, mid_unit |-> "us",
      high |-> 2, high_unit |-> "ms"],
     [name |-> [group |-> "startup", rest |-> ""],
      low |-> 900, low_unit |-> "ms", mid |-> 2, mid_unit |-> "s",
      high |-> 2, high_unit |-> "s"]}

MicroTexts ==
    {[empty |-> FALSE, matches |-> ms] :
        ms \in UNION {[1..n -> BenchLines] : n \in 0..MaxBenchmarks}}

MicroFiles ==
    {Absent, TextFile([empty |-> TRUE, matches |-> <<>>])}
      \cup {TextFile(t) : t \in MicroTexts}

ServerFiles ==
    {Absent, Malformed, JsonFile(EmptyMap),
     JsonFile([cpu_percent |-> 50, memory_mb |-> 512])}

----------------------------------------------------------------------------
(* generate_report.py: main *)

InitRep ==
    /\ rep_args \in [dir_exists : BOOLEAN, output : {None, ReportPath},
                     now : {"2026-01-01 00:00:00"}]
    /\ IF rep_args.dir_exists
       THEN rep_files \in [tile : TileFiles, ws : WsFiles,
                           micro : MicroFiles, server : ServerFiles]
       ELSE rep_files = [tile |-> Absent, ws |-> Absent,
                         micro |-> Absent, server |-> Absent]
    /\ rep_pc = "main"
    /\ rep_exit = Running
    /\ lines = <<>>
    /\ tile_data = NoneValue
    /\ ws_text = NoneValue
    /\ ws_data = EmptyMap
    /\ rep_written = NoReport
    /\ rep_stdout = NoReport
    /\ rep_stderr = <<>>

\* slip: the run goes on without the input directory
RepDirMissingIgnored ==
    /\ rep_pc = "main"
    /\ ~rep_args.dir_exists
    /\ lines' = HeaderLines(rep_args.now, "run")
    /\ rep_pc' = "summary"
    /\ UNCHANGED <<rep_args, rep_files, rep_exit, tile_data, ws_text, ws_data,
                   rep_written, rep_stdout, rep_stderr>>

\* main: the input directory does not exist
RepDirMissing ==
    /\ rep_pc = "main"
    /\ ~rep_args.dir_exists
    /\ rep_stderr' = Append(rep_stderr, "Error: Input directory not found")
    /\ rep_exit' = 1
    /\ rep_pc' = "exit"
    /\ UNCHANGED <<rep_args, rep_files, lines, tile_data, ws_text, ws_data,
                   rep_written, rep_stdout>>

\* generate_report: title and table of contents
RepHeader ==
    /\ rep_pc = "main"
    /\ rep_args.dir_exists
    /\ lines' = HeaderLines(rep_args.now, "run")
    /\ rep_pc' = "summary"
    /\ UNCHANGED <<rep_args, rep_files, rep_exit, tile_data, ws_text, ws_data,
                   rep_written, rep_stdout, rep_stderr>>

\* generate_report: load the tile and WebSocket results, render the summary
RepSummary ==
    /\ rep_pc = "summary"
    /\ LET td == load_json_safe(rep_files.tile)
           wt == load_text_safe(rep_files.ws)
           wd == IF TruthyText(wt) THEN parse_websocket_output(wt.value) ELSE EmptyMap
       IN  /\ tile_data' = td
           /\ ws_text' = wt
           /\ ws_data' = wd
           /\ lines' = lines \o SummaryLines(td, wt, wd)
    /\ rep_pc' = "tile"
    /\ UNCHANGED <<rep_args, rep_files, rep_exit, rep_written, rep_stdout, rep_stderr>>

RepTile ==
    /\ rep_pc = "tile"
    /\ lines' = lines \o TileLines(tile_data)
    /\ rep_pc' = "websocket"
    /\ UNCHANGED <<rep_args, rep_files, rep_exit, tile_data, ws_text, ws_data,
                   rep_written, rep_stdout, rep_stderr>>

RepWebSocket ==
    /\ rep_pc = "websocket"
    /\ lines' = lines \o WsLines(ws_text, ws_data)
    /\ rep_pc' = "micro"
    /\ UNCHANGED <<rep_args, rep_files, rep_exit, tile_data, ws_text, ws_data,
                   rep_written, rep_stdout, rep_stderr>>

RepMicro ==
    /\ rep_pc = "micro"
    /\ lines' = lines \o MicroLines(load_text_safe(rep_files.micro))
    /\ rep_pc' = "server"
    /\ UNCHANGED <<rep_args, rep_files, rep_exit, tile_data, ws_text, ws_data,
                   rep_written, rep_stdout, rep_stderr>>

\* generate_report: server metrics and footer; the report is returned
RepServer ==
    /\ rep_pc = "server"
    /\ lines' = lines \o ServerLines(load_json_safe(rep_files.server)) \o FooterLines
    /\ rep_pc' = "write"
    /\ UNCHANGED <<rep_args, rep_files, rep_exit, tile_data, ws_text, ws_data,
                   rep_written, rep_stdout, rep_stderr>>

\* main: --output given, the report is written to it
RepSave ==
    /\ rep_pc = "write"
    /\ rep_args.output # None
    /\ rep_written' = lines
    /\ rep_exit' = 0
    /\ rep_pc' = "exit"
    /\ UNCHANGED <<rep_args, rep_files, lines, tile_data, ws_text, ws_data,
                   rep_stdout, rep_stderr>>

\* main: no --output, the report is printed
RepPrint ==
    /\ rep_pc = "write"
    /\ rep_args.output = None
    /\ rep_stdout' = lines
    /\ rep_exit' = 0
    /\ rep_pc' = "exit"
    /\ UNCHANGED <<rep_args, rep_files, lines, tile_data, ws_text, ws_data,
                   rep_written, rep_stderr>>

----------------------------------------------------------------------------
(* generate_fixtures.py: arithmetic *)

RECURSIVE Pow2(_)
Pow2(k) == IF k <= 0 THEN 1 ELSE 2 * Pow2(k - 1)

\* math.ceil(a / b) for b > 0
CeilDiv(a, b) == -((-a) \div b)

RECURSIVE CeilLog2(_, _)
\* the least k >= 0 with d * 2^k >= n
CeilLog2(n, d) == IF n <= d THEN 0 ELSE 1 + CeilLog2(n, 2 * d)

RECURSIVE FloorLog2(_, _)
\* the greatest k >= 0 with d * 2^k <= n, for n >= d
FloorLog2(n, d) == IF 2 * d > n THEN 0 ELSE 1 + FloorLog2(n, 2 * d)

\* slip: the level count of size / tile_size without the logarithm's ceiling
MaxLevelFloor(size, tile_size) ==
    IF size >= tile_size THEN FloorLog2(size, tile_size) + 1
    ELSE -FloorLog2(tile_size, size)

\* math.ceil(math.log2(max(size, size) / tile_size))
MaxLevel(size, tile_size) ==
    IF size >= tile_size THEN CeilLog2(size, tile_size)
    ELSE -FloorLog2(tile_size, size)

Min(a, b) == IF a < b THEN a ELSE b

\* slip: the scale grows with the level
ScaleReversed(maxlvl, lvl) == Pow2(lvl)

\* scale = 2 ** (max_level - level)
Scale(maxlvl, lvl) == Pow2(maxlvl - lvl)

\* level_width = level_height = math.ceil(size / scale)
LevelDim(size, maxlvl, lvl) == CeilDiv(size, Scale(maxlvl, lvl))

\* tiles_x = tiles_y = math.ceil(level_width / tile_size)
TilesPerAxis(dim, tile_size) == CeilDiv(dim, tile_size)

\* slip: every tile is tile_size wide and high
TileExtentFull(dim, tile_size, t) == tile_size

\* tile_width = min(tile_size, level_width - tile_x_start)
TileExtent(dim, tile_size, t) == Min(tile_size, dim - t * tile_size)

----------------------------------------------------------------------------
(* generate_fixtures.py: pixels and tiles *)

GridSize == 128
SlideColors ==
    <<<<240, 240, 240>>, <<200, 220, 240>>, <<220, 240, 200>>, <<240, 220, 200>>>>

\* generate_demo_slide's get_pixel at global coordinates (gx, gy)
SlidePixel(gx, gy) ==
    LET cell_x == (gx \div GridSize) % 4
        cell_y == (gy \div GridSize) % 4
    IN  IF gx % GridSize < 2 \/ gy % GridSize < 2
        THEN <<180, 180, 180>>
        ELSE SlideColors[((cell_x + cell_y) % 4) + 1]

\* generate_demo_overlay's get_pixel: dist < slide_size * f compared on the
\* squares, with f = 0.15, 0.25, 0.35, 0.40 as 3/20, 1/4, 7/20, 2/5
OverlayPixel(gx, gy, slide_size) ==
    LET dx == gx - (slide_size \div 2)
        dy == gy - (slide_size \div 2)
        d2 == dx * dx + dy * dy
        s2 == slide_size * slide_size
    IN  IF 400 * d2 < 9 * s2 THEN <<239, 68, 68>>
        ELSE IF 16 * d2 < s2 THEN <<59, 130, 246>>
        ELSE IF 400 * d2 < 49 * s2 THEN <<245, 158, 11>>
        ELSE IF 25 * d2 < 4 * s2 THEN <<107, 114, 128>>
        ELSE <<0, 0, 0>>

\* get_pixel(x, y) of generator g for the tile starting at (x0, y0)
GetPixel(g, size, scale, x0, y0, x, y) ==
    IF g = "slide" THEN SlidePixel((x0 + x) * scale, (y0 + y) * scale)
    ELSE OverlayPixel((x0 + x) * scale, (y0 + y) * scale, size)

\* create_ppm_image: the header, the number of pixel bytes, and the pixels
\* at the four corners of the tile
create_ppm_image(width, height, corner) ==
    [header |-> <<"P6", width, height, 255>>,
     nbytes |-> 3 * width * height,
     corners |-> corner]

\* the tile written at (tx, ty) of a level: "{level}/{tx}_{ty}.ppm"
Tile(g, size, tile_size, maxlvl, lvl, x, y) ==
    LET dim == LevelDim(size, maxlvl, lvl)
        scale == Scale(maxlvl, lvl)
        tile_x_start == x * tile_size
        tile_y_start == y * tile_size
        tile_width == TileExtent(dim, tile_size, x)
        tile_height == TileExtent(dim, tile_size, y)
        px(i, j) == GetPixel(g, size, scale, tile_x_start, tile_y_start, i, j)
    IN  [level |-> lvl, tx |-> x, ty |-> y,
         ppm |-> create_ppm_image(tile_width, tile_height,
                    <<px(0, 0), px(tile_width - 1, 0),
                      px(0, tile_height - 1), px(tile_width - 1, tile_height - 1)>>)]

\* slide.dzi
Dzi(size, tile_size) ==
    [Format |-> "jpeg", Overlap |-> 0, TileSize |-> tile_size,
     Width |-> size, Height |-> size]

\* slip: metadata.json stamped with the run
MetadataStamped(size, tile_size, maxlvl) ==
    [slide_id |-> "demo-slide", name |-> "Demo Slide", width |-> size,
     height |-> size, tile_size |-> tile_size, num_levels |-> maxlvl + 1,
     format |-> "jpeg", created_at |-> fx_run]

\* metadata.json
Metadata(size, tile_size, maxlvl) ==
    [slide_id |-> "demo-slide", name |-> "Demo Slide", width |-> size,
     height |-> size, tile_size |-> tile_size, num_levels |-> maxlvl + 1,
     format |-> "jpeg"]

\* manifest.json
Manifest(slide_size, tile_size, maxlvl) ==
    [id |-> "demo-overlay", slide_id |-> "demo-slide",
     name |-> "Demo Tissue Segmentation", width |-> slide_size,
     height |-> slide_size, tile_size |-> tile_size, levels |-> maxlvl + 1,
     format |-> "png",
     classes |-> <<"Background", "Tumor", "Stroma", "Necrosis", "Lymphocytes">>,
     version |-> "1.0"]

NoFiles == [descriptor |-> <<>>, sidecar |-> <<>>, level_dirs |-> {}, tiles |-> {}]

\* nothing recorded of a run
NoRun == [fixtures |-> [g \in {"slide", "overlay"} |-> NoFiles], out |-> <<>>]

----------------------------------------------------------------------------
(* generate_fixtures.py: main, generate_demo_slide, generate_demo_overlay *)

\* the sizes main() passes
SlideSize == 1024
TileSize == 256

FixtureInputs ==
    {[size |-> SlideSize, tile_size |-> TileSize]} \cup
    [size : 1..MaxSize, tile_size : 1..MaxTileSize]

InitFx ==
    /\ fx_args \in FixtureInputs
    /\ gen = "slide"
    /\ fx_pc = "setup"
    /\ max_level = 0
    /\ level = 0
    /\ level_width = 0
    /\ level_height = 0
    /\ tiles_x = 0
    /\ tiles_y = 0
    /\ tx = 0
    /\ ty = 0
    /\ fixtures = [g \in {"slide", "overlay"} |-> NoFiles]
    /\ fx_out = <<>>
    /\ fx_run = 1
    /\ first_run = NoRun

\* the level count, the descriptor and the sidecar of generator g
Setup(g) ==
    /\ gen = g
    /\ fx_pc = "setup"
    /\ LET ml == MaxLevel(fx_args.size, fx_args.tile_size)
       IN  /\ max_level' = ml
           /\ fixtures' =
                [fixtures EXCEPT
                   ![g].descriptor =
                       IF g = "slide" THEN <<Dzi(fx_args.size, fx_args.tile_size)>>
                                      ELSE <<>>,
                   ![g].sidecar =
                       IF g = "slide"
                       THEN <<Metadata(fx_args.size, fx_args.tile_size, ml)>>
                       ELSE <<Manifest(fx_args.size, fx_args.tile_size, ml)>>]
    /\ level' = 0
    /\ fx_pc' = "level"
    /\ UNCHANGED <<fx_args, gen, level_width, level_height, tiles_x, tiles_y,
                   tx, ty, fx_out,
                   fx_run, first_run>>

\* the head of one pass of "for level in range(max_level + 1)"
LevelStart(g) ==
    /\ gen = g
    /\ fx_pc = "level"
    /\ level <= max_level
    /\ LET dim == LevelDim(fx_args.size, max_level, level)
       IN  /\ level_width' = dim
           /\ level_height' = dim
           /\ tiles_x' = TilesPerAxis(dim, fx_args.tile_size)
           /\ tiles_y' = TilesPerAxis(dim, fx_args.tile_size)
    /\ fixtures' = [fixtures EXCEPT ![g].level_dirs = @ \cup {level}]
    /\ tx' = 0
    /\ ty' = 0
    /\ fx_pc' = "tiles"
    /\ UNCHANGED <<fx_args, gen, max_level, level, fx_out,
                   fx_run, first_run>>

\* one pass of "for ty ...: for tx ...": the tile is written
WriteTile(g) ==
    /\ gen = g
    /\ fx_pc = "tiles"
    /\ ty < tiles_y /\ tx < tiles_x
    /\ LET t == Tile(g, fx_args.size, fx_args.tile_size, max_level, level, tx, ty)
       IN  fixtures' =
             [fixtures EXCEPT
                ![g].tiles =
                    {o \in @ : ~(o.level = level /\ o.tx = tx /\ o.ty = ty)} \cup {t}]
    /\ IF tx + 1 < tiles_x
       THEN tx' = tx + 1 /\ ty' = ty
       ELSE tx' = 0 /\ ty' = ty + 1
    /\ UNCHANGED <<fx_args, gen, fx_pc, max_level, level, level_width, level_height,
                   tiles_x, tiles_y, fx_out,
                   fx_run, first_run>>

\* the tile loops are over: the level is reported
LevelDone(g) ==
    /\ gen = g
    /\ fx_pc = "tiles"
    /\ ty >= tiles_y \/ tiles_x = 0
    /\ fx_out' = Append(fx_out, [gen |-> g, level |-> level,
                                 tiles_x |-> tiles_x, tiles_y |-> tiles_y])
    /\ level' = level + 1
    /\ fx_pc' = "level"
    /\ UNCHANGED <<fx_args, gen, max_level, level_width, level_height,
                   tiles_x, tiles_y, tx, ty, fixtures,
                   fx_run, first_run>>

\* the level loop is over: the generator returns
Return(g) ==
    /\ gen = g
    /\ fx_pc = "level"
    /\ level > max_level
    /\ gen' = IF g = "slide" THEN "overlay" ELSE "done"
    /\ fx_pc' = IF g = "slide" THEN "setup" ELSE "done"
    /\ UNCHANGED <<fx_args, max_level, level, level_width, level_height,
                   tiles_x, tiles_y, tx, ty, fixtures, fx_out,
                   fx_run, first_run>>

\* the script is run a second time with the same sizes, into an empty
\* fixtures directory; what the first run wrote and printed is kept aside
Rerun ==
    /\ gen = "done"
    /\ fx_run = 1
    /\ first_run' = [fixtures |-> fixtures, out |-> fx_out]
    /\ fx_run' = 2
    /\ gen' = "slide"
    /\ fx_pc' = "setup"
    /\ max_level' = 0
    /\ level' = 0
    /\ level_width' = 0
    /\ level_height' = 0
    /\ tiles_x' = 0
    /\ tiles_y' = 0
    /\ tx' = 0
    /\ ty' = 0
    /\ fixtures' = [g \in {"slide", "overlay"} |-> NoFiles]
    /\ fx_out' = <<>>
    /\ UNCHANGED fx_args

----------------------------------------------------------------------------
(* Specifications: one per script, the other scripts not running *)

IdleCmp ==
    /\ args = [save_baseline |-> None, output |-> None, current |-> None,
               baseline |-> None, threshold |-> DefaultThreshold, description |-> ""]
    /\ fs = [p \in Paths |-> Absent]
    /\ clock = CHOOSE t \in Times : TRUE
    /\ pc = "idle"
    /\ exit_code = Running
    /\ loaded = {}
    /\ out = <<>>
    /\ current_metrics = EmptyMap
    /\ baseline_metrics = EmptyMap
    /\ passed = TRUE
    /\ rows = <<>>

IdleRep ==
    /\ rep_args = [dir_exists |-> FALSE, output |-> None, now |-> ""]
    /\ rep_files = [tile |-> Absent, ws |-> Absent, micro |-> Absent, server |-> Absent]
    /\ rep_pc = "idle"
    /\ rep_exit = Running
    /\ lines = <<>>
    /\ tile_data = NoneValue
    /\ ws_text = NoneValue
    /\ ws_data = EmptyMap
    /\ rep_written = NoReport
    /\ rep_stdout = NoReport
    /\ rep_stderr = <<>>

IdleFx ==
    /\ fx_args = [size |-> SlideSize, tile_size |-> TileSize]
    /\ gen = "idle"
    /\ fx_pc = "idle"
    /\ max_level = 0
    /\ level = 0
    /\ level_width = 0
    /\ level_height = 0
    /\ tiles_x = 0
    /\ tiles_y = 0
    /\ tx = 0
    /\ ty = 0
    /\ fixtures = [g \in {"slide", "overlay"} |-> NoFiles]
    /\ fx_out = <<>>
    /\ fx_run = 1
    /\ first_run = NoRun

\* compare_baseline.py
InitCompare == InitCmp /\ IdleRep /\ IdleFx
NextCompare ==
    \/ SaveWithoutOutput /\ UNCHANGED <<repVars, fxVars>>
    \/ SaveLoadFails /\ UNCHANGED <<repVars, fxVars>>
    \/ SaveBaseline /\ UNCHANGED <<repVars, fxVars>>
    \/ MissingArgument /\ UNCHANGED <<repVars, fxVars>>
    \/ CurrentNotFound /\ UNCHANGED <<repVars, fxVars>>
    \/ BaselineNotFound /\ UNCHANGED <<repVars, fxVars>>
    \/ CompareLoadFails /\ UNCHANGED <<repVars, fxVars>>
    \/ LoadAndCompare /\ UNCHANGED <<repVars, fxVars>>
    \/ ReportAndExit /\ UNCHANGED <<repVars, fxVars>>
    \/ CompareAfterSave /\ UNCHANGED <<repVars, fxVars>>
SpecCompare == InitCompare /\ [][NextCompare]_vars

\* generate_report.py
InitReport == InitRep /\ IdleCmp /\ IdleFx
NextReport ==
    \/ RepDirMissing /\ UNCHANGED <<cmpVars, fxVars>>
    \/ RepHeader /\ UNCHANGED <<cmpVars, fxVars>>
    \/ RepSummary /\ UNCHANGED <<cmpVars, fxVars>>
    \/ RepTile /\ UNCHANGED <<cmpVars, fxVars>>
    \/ RepWebSocket /\ UNCHANGED <<cmpVars, fxVars>>
    \/ RepMicro /\ UNCHANGED <<cmpVars, fxVars>>
    \/ RepServer /\ UNCHANGED <<cmpVars, fxVars>>
    \/ RepSave /\ UNCHANGED <<cmpVars, fxVars>>
    \/ RepPrint /\ UNCHANGED <<cmpVars, fxVars>>
SpecReport == InitReport /\ [][NextReport]_vars

\* generate_fixtures.py: generate_demo_slide, then generate_demo_overlay
InitFixtures == InitFx /\ IdleCmp /\ IdleRep
NextFixtures ==
    \/ Setup("slide") /\ UNCHANGED <<cmpVars, repVars>>
    \/ LevelStart("slide") /\ UNCHANGED <<cmpVars, repVars>>
    \/ WriteTile("slide") /\ UNCHANGED <<cmpVars, repVars>>
    \/ LevelDone("slide") /\ UNCHANGED <<cmpVars, repVars>>
    \/ Return("slide") /\ UNCHANGED <<cmpVars, repVars>>
    \/ Setup("overlay") /\ UNCHANGED <<cmpVars, repVars>>
    \/ LevelStart("overlay") /\ UNCHANGED <<cmpVars, repVars>>
    \/ WriteTile("overlay") /\ UNCHANGED <<cmpVars, repVars>>
    \/ LevelDone("overlay") /\ UNCHANGED <<cmpVars, repVars>>
    \/ Return("overlay") /\ UNCHANGED <<cmpVars, repVars>>
    \/ Rerun /\ UNCHANGED <<cmpVars, repVars>>
SpecFixtures == InitFixtures /\ [][NextFixtures]_vars

----------------------------------------------------------------------------
(* Properties of compare_baseline.py *)

LastOut == IF Len(out) = 0 THEN "" ELSE out[Len(out)]

\* compare_metrics has returned in this run
Compared == pc = "compared" \/ (pc = "exit" /\ LastOut \in {"PASSED", "FAILED"})

\* the run ended in save mode with the baseline written
Saved == pc = "exit" /\ LastOut = "OK Saved baseline"

SaveMode == args.save_baseline # None
CompareMode ==
    args.save_baseline = None /\ args.current # None /\ args.baseline # None

RowsOf(metric) == {i \in 1..Len(rows) : rows[i].metric = metric}
Metrics == (DOMAIN current_metrics) \cup (DOMAIN baseline_metrics)
CurOf(metric) == Get(current_metrics, metric, 0)
BaseOf(metric) == Get(baseline_metrics, metric, 0)

\* (current - baseline) / baseline * 100 > t, without the division
ExceedsThreshold(metric, t) ==
    LET c == CurOf(metric)
        b == BaseOf(metric)
    IN  IF b = 0 THEN c # 0
        ELSE IF b > 0 THEN (c - b) * 100 > t * b
        ELSE (c - b) * 100 < t * b

\* C1: the run fails (passed = False, exit code 1) if and only if p99_ms is
\* compared and its percentage change exceeds the threshold; no other
\* metric's values change the flag.  With baseline p99_ms 50, current 60 and
\* threshold 10 the row reads "+20.0%", REGRESSED, and the run fails.
C1_OnlyP99DecidesFlag ==
    Compared =>
        /\ (passed = FALSE) <=>
              ("p99_ms" \in Metrics /\ ExceedsThreshold("p99_ms", args.threshold))
        /\ pc = "exit" => (exit_code = 1 <=> passed = FALSE)
        /\ (/\ "p99_ms" \in DOMAIN current_metrics
            /\ "p99_ms" \in DOMAIN baseline_metrics
            /\ current_metrics["p99_ms"] = 60
            /\ baseline_metrics["p99_ms"] = 50
            /\ args.threshold = 10) =>
              /\ passed = FALSE
              /\ \A i \in RowsOf("p99_ms") :
                    /\ rows[i].change_str = [text |-> "pct", sign |-> "+", tenths |-> 200]
                    /\ rows[i].status = "REGRESSED"

\* C1 witness: a run that passed although another metric is REGRESSED
C1_Witness ==
    /\ pc = "exit" /\ Compared /\ exit_code = 0
    /\ "p99_ms" \in Metrics
    /\ \E i \in 1..Len(rows) :
          rows[i].metric # "p99_ms" /\ rows[i].status = "REGRESSED"

\* C2: for a metric in both mappings with a nonzero baseline the change is
\* (current - baseline) / baseline * 100: positive exactly when current >
\* baseline for a positive baseline, 0 when they are equal.
C2_ChangeFormula ==
    Compared =>
        \A i \in 1..Len(rows) :
            LET m == rows[i].metric
                ch == rows[i].change_pct
            IN  (/\ m \in DOMAIN current_metrics
                 /\ m \in DOMAIN baseline_metrics
                 /\ baseline_metrics[m] # 0) =>
                    LET c == current_metrics[m]
                        b == baseline_metrics[m]
                    IN  /\ ~ch.inf
                        /\ ch.den > 0
                        /\ ch.num * b = (c - b) * 100 * ch.den
                        /\ b > 0 => (ch.num > 0 <=> c > b)
                        /\ c = b => ch.num = 0

\* C2 witness: a metric in both mappings, nonzero baseline, changed value
C2_Witness ==
    /\ Compared
    /\ \E i \in 1..Len(rows) :
          /\ rows[i].metric \in (DOMAIN current_metrics) \cap (DOMAIN baseline_metrics)
          /\ baseline_metrics[rows[i].metric] = 60
          /\ current_metrics[rows[i].metric] = 52
          /\ rows[i].change_pct.num < 0

\* C3: baseline 0 and current 0 give a 0% change; baseline 0 and current
\* nonzero give an infinite change shown as "N/A"; the run then fails only
\* when that metric is p99_ms.
C3_ZeroBaseline ==
    Compared =>
        /\ \A i \in 1..Len(rows) :
              BaseOf(rows[i].metric) = 0 =>
                 IF CurOf(rows[i].metric) = 0
                 THEN /\ ~rows[i].change_pct.inf
                      /\ rows[i].change_pct.num = 0
                      /\ rows[i].change_str = [text |-> "pct", sign |-> "", tenths |-> 0]
                 ELSE /\ rows[i].change_pct.inf
                      /\ rows[i].change_str.text = "N/A"
        /\ (/\ passed = FALSE
            /\ \E i \in 1..Len(rows) : rows[i].change_pct.inf) =>
              \E i \in RowsOf("p99_ms") : rows[i].status = "REGRESSED"

\* C3 witness: an "N/A" latency other than p99_ms is REGRESSED, the run passes
C3_Witness ==
    /\ pc = "exit" /\ Compared /\ exit_code = 0
    /\ \E i \in 1..Len(rows) :
          /\ rows[i].metric = "p50_ms"
          /\ rows[i].change_str.text = "N/A"
          /\ rows[i].status = "REGRESSED"

\* C4: the metrics extracted from the saved baseline file, re-loaded, are
\* the metrics extracted from the results document it was made from.
C4_BaselineRoundTrip ==
    Saved =>
        /\ Loadable(args.output)
        /\ extract_metrics(load_json(args.output))
             = extract_metrics(load_json(args.save_baseline))

\* C4 witness: a baseline saved from a document that mixes the shapes
C4_Witness ==
    /\ Saved
    /\ LET results == load_json(args.save_baseline)
       IN  /\ {"summary", "latencyPercentiles", "metrics"} \subseteq DOMAIN results
           /\ "p99" \in DOMAIN results["latencyPercentiles"]
           /\ "p99_ms" \notin DOMAIN results["metrics"]

\* C5 as stated: exit code 0 on pass or save; 1 on p99 regression, a missing
\* required argument, or a missing current results file or baseline file.
C5_AsStated ==
    pc = "exit" =>
        /\ (Saved \/ (Compared /\ passed)) => exit_code = 0
        /\ (Compared /\ ~passed) => exit_code = 1
        /\ (SaveMode /\ args.output = None) => exit_code = 1
        /\ (~SaveMode /\ ~CompareMode) => exit_code = 1
        /\ (CompareMode /\ (~Exists(args.current) \/ ~Exists(args.baseline)))
              => exit_code = 1

\* C5 amended: as stated, except that a missing baseline file, the current
\* results file being there, ends the run with exit code 0.
C5_ExitCodes ==
    pc = "exit" =>
        /\ (Saved \/ (Compared /\ passed)) => exit_code = 0
        /\ (Compared /\ ~passed) => exit_code = 1
        /\ (SaveMode /\ args.output = None) => exit_code = 1
        /\ (~SaveMode /\ ~CompareMode) => exit_code = 1
        /\ (CompareMode /\ ~Exists(args.current)) => exit_code = 1
        /\ (CompareMode /\ Exists(args.current) /\ ~Exists(args.baseline))
              => exit_code = 0

\* C5 witness: a failed comparison has exited with code 1
C5_Witness ==
    pc = "exit" /\ Compared /\ ~passed /\ exit_code = 1

\* C6: in comparison mode a missing current file exits 1, the baseline
\* missing or not; a missing baseline with the current file there exits 0
\* before any file is loaded or compared.
C6_CurrentCheckedFirst ==
    (pc = "exit" /\ CompareMode) =>
        /\ ~Exists(args.current) => (exit_code = 1 /\ loaded = {})
        /\ (Exists(args.current) /\ ~Exists(args.baseline)) =>
              /\ exit_code = 0
              /\ loaded = {}
              /\ ~Compared
              /\ rows = <<>>

\* C6 witness: the early exit for "no baseline yet"
C6_Witness ==
    /\ pc = "exit" /\ CompareMode
    /\ Exists(args.current) /\ ~Exists(args.baseline)
    /\ exit_code = 0

Rank(metric) == CHOOSE i \in 1..Len(NameOrder) : NameOrder[i] = metric

\* C7: one row per metric of either mapping, in metric-name order, each with
\* one status of REGRESSED, IMPROVED, CHANGED, OK; a metric missing from a
\* mapping is compared as if it were 0 there.
C7_OneRowPerMetric ==
    Compared =>
        LET current0 == Update([k \in Metrics |-> 0], current_metrics)
            baseline0 == Update([k \in Metrics |-> 0], baseline_metrics)
        IN  /\ Len(rows) = Cardinality(Metrics)
            /\ \A m \in Metrics : Cardinality(RowsOf(m)) = 1
            /\ \A i \in 1..Len(rows) :
                  /\ rows[i].metric \in Metrics
                  /\ rows[i].status \in {"REGRESSED", "IMPROVED", "CHANGED", "OK"}
                  /\ rows[i] = Row(rows[i].metric, current0, baseline0,
                                   args.threshold)
            /\ \A i, j \in 1..Len(rows) :
                  i < j => Rank(rows[i].metric) < Rank(rows[j].metric)

\* C7 witness: rows for a metric only in the baseline and one only in current
C7_Witness ==
    /\ Compared
    /\ Len(rows) = 2
    /\ rows[1].metric \notin DOMAIN current_metrics
    /\ rows[2].metric \notin DOMAIN baseline_metrics
    /\ rows[1].status # rows[2].status

----------------------------------------------------------------------------
(* Properties of generate_report.py *)

Headings ==
    <<"## Summary", "## HTTP Tile Performance", "## WebSocket Performance",
      "## Micro-benchmarks", "## Server Metrics">>

LinesWith(text) == {i \in 1..Len(lines) : lines[i].text = text}

\* generate_report has returned
ReportDone == rep_pc \in {"write", "exit"} /\ rep_args.dir_exists

\* where each heading stands: 0 if it is missing, else its first line
HeadingLines ==
    [k \in 1..Len(Headings) |->
        IF LinesWith(Headings[k]) = {} THEN 0
        ELSE CHOOSE i \in LinesWith(Headings[k]) :
                \A j \in LinesWith(Headings[k]) : i <= j]

\* the lines of section k: from its heading to the next heading
SectionOf(h, k) ==
    IF k < Len(Headings) THEN h[k]..(h[k + 1] - 1) ELSE h[k]..Len(lines)

\* section k holds the placeholder and none of the lines that show data
OnlyPlaceholder(h, k, placeholder, data) ==
    /\ \E i \in SectionOf(h, k) : lines[i].text = placeholder
    /\ \A i \in SectionOf(h, k) : lines[i].text \notin data

\* C8: with the input directory there, generate_report returns a report for
\* every combination of present and missing input files; the five sections
\* come once each, in order, and the section of a missing file holds its
\* "no data" placeholder instead of data.
C8_MissingFilesDegrade ==
    /\ (rep_args.dir_exists /\ rep_pc \notin {"exit", "idle"}) => ENABLED NextReport
    /\ (rep_args.dir_exists /\ rep_pc = "exit") =>
          /\ rep_exit = 0
          /\ IF rep_args.output = None THEN rep_stdout = lines ELSE rep_written = lines
    /\ ReportDone =>
          LET h == HeadingLines
          IN  /\ \A k \in 1..Len(Headings) : Cardinality(LinesWith(Headings[k])) = 1
              /\ \A k \in 1..(Len(Headings) - 1) : h[k] < h[k + 1]
              /\ rep_files.tile.kind = "absent" =>
                    /\ OnlyPlaceholder(h, 2, "*No HTTP tile performance data available.*",
                                       {"### Throughput", "### Latency Distribution",
                                        "### Status Codes"})
                    /\ \E i \in SectionOf(h, 1) :
                          lines[i].text = "- **Tile serving:** No data collected"
              /\ rep_files.ws.kind = "absent" =>
                    /\ OnlyPlaceholder(h, 3, "*No WebSocket performance data available.*",
                                       {"### Results", "<details>"})
                    /\ \E i \in SectionOf(h, 1) :
                          lines[i].text = "- **WebSocket:** No data collected"
              /\ rep_files.micro.kind = "absent" =>
                    OnlyPlaceholder(h, 4, "*No micro-benchmark data available.*",
                                    {"| Benchmark | Time (median) | Range |", "### {}",
                                     "*Could not parse benchmark results.*"})
              /\ rep_files.server.kind = "absent" =>
                    OnlyPlaceholder(h, 5, "*No server metrics available.*",
                                    {"| Metric | Value |"})

\* C8 witness: a finished report with two files missing and two present
C8_Witness ==
    /\ rep_pc = "exit" /\ rep_exit = 0 /\ rep_args.dir_exists
    /\ rep_files.tile.kind = "json"
    /\ rep_files.ws.kind = "absent"
    /\ rep_files.micro.kind = "absent"
    /\ rep_files.server.kind = "json"
    /\ LinesWith("### Throughput") # {}
    /\ LinesWith("*No micro-benchmark data available.*") # {}

\* C9: without the input directory main exits with code 1, generates no
\* report and writes no output file; with the directory it does not exit
\* with code 1, whatever input files are missing.
C9_MissingDirectoryExit ==
    /\ ~rep_args.dir_exists =>
          /\ lines = <<>>
          /\ rep_written = NoReport
          /\ rep_stdout = NoReport
    /\ rep_pc = "exit" => (rep_exit = 1 <=> ~rep_args.dir_exists)

\* C9 witness: the run without the input directory has exited
C9_Witness ==
    /\ rep_pc = "exit"
    /\ ~rep_args.dir_exists
    /\ rep_exit = 1
    /\ rep_stderr # <<>>

----------------------------------------------------------------------------
(* Properties of generate_fixtures.py *)

\* generator g has returned
Returned(g) == gen = "done" \/ (g = "slide" /\ gen = "overlay")

TileKeys(g) == {<<t.level, t.tx, t.ty>> : t \in fixtures[g].tiles}

\* n = ceil(a / b), said without a division
IsCeilDiv(n, a, b) == n * b >= a /\ (n - 1) * b < a

\* C10: for size 1024 and tile size 256 there are exactly 3 levels (0, 1, 2;
\* num_levels = levels = 3) with 1x1, 2x2 and 4x4 tiles; at every level the
\* tiles per axis are ceil(level_dimension / tile_size) with
\* level_dimension = ceil(size / 2^(max_level - level)).
C10_DemoPyramid ==
    /\ (gen \in {"slide", "overlay"} /\ fx_pc = "tiles") =>
          /\ IsCeilDiv(level_width, fx_args.size, Pow2(max_level - level))
          /\ IsCeilDiv(tiles_x, level_width, fx_args.tile_size)
          /\ IsCeilDiv(tiles_y, level_height, fx_args.tile_size)
          /\ level_height = level_width
    /\ \A g \in {"slide", "overlay"} :
          (Returned(g) /\ fx_args.size = 1024 /\ fx_args.tile_size = 256) =>
             /\ fixtures[g].level_dirs = {0, 1, 2}
             /\ IF g = "slide" THEN fixtures[g].sidecar[1].num_levels = 3
                               ELSE fixtures[g].sidecar[1].levels = 3
             /\ TileKeys(g) =
                   {<<l, x, y>> : l \in {0}, x \in {0}, y \in {0}}
                     \cup {<<l, x, y>> : l \in {1}, x \in 0..1, y \in 0..1}
                     \cup {<<l, x, y>> : l \in {2}, x \in 0..3, y \in 0..3}
             /\ Cardinality(fixtures[g].tiles) = 21
             /\ \A i \in 1..Len(fx_out) :
                   fx_out[i].gen = g =>
                      /\ fx_out[i].level \in {0, 1, 2}
                      /\ fx_out[i].tiles_x = Pow2(fx_out[i].level)
                      /\ fx_out[i].tiles_y = Pow2(fx_out[i].level)

\* C10 witness: both generators have returned for size 1024, tile size 256
C10_Witness ==
    /\ gen = "done"
    /\ fx_args.size = 1024 /\ fx_args.tile_size = 256
    /\ Len(fx_out) = 6
    /\ Cardinality(fixtures["overlay"].tiles) = 21

----------------------------------------------------------------------------
(* Properties of compare_metrics' classification *)

\* (current - baseline) / baseline * 100 < -t, without the division
BelowMinusThreshold(metric, t) ==
    LET c == CurOf(metric)
        b == BaseOf(metric)
    IN  b > 0 /\ (c - b) * 100 < -(t * b)

\* the sign of the change: an infinite change is positive
ChangeNegative(metric) == BaseOf(metric) > 0 /\ CurOf(metric) < BaseOf(metric)
ChangePositive(metric) ==
    IF BaseOf(metric) = 0 THEN CurOf(metric) # 0
    ELSE BaseOf(metric) > 0 /\ CurOf(metric) > BaseOf(metric)

\* C12: a latency metric is REGRESSED only when its change is above the
\* threshold and IMPROVED only when its change is negative; requests_per_sec
\* and success_rate are REGRESSED only when their change is below minus the
\* threshold and IMPROVED only when it is positive; any other metric is OK
\* or CHANGED.
C12_DirectionByKind ==
    Compared =>
        \A i \in 1..Len(rows) :
            LET m == rows[i].metric
                st == rows[i].status
            IN  /\ m \in lower_is_better =>
                      /\ st = "REGRESSED" => ExceedsThreshold(m, args.threshold)
                      /\ st = "IMPROVED" => ChangeNegative(m)
                /\ m \in higher_is_better =>
                      /\ st = "REGRESSED" => BelowMinusThreshold(m, args.threshold)
                      /\ st = "IMPROVED" => ChangePositive(m)
                /\ m \notin lower_is_better \cup higher_is_better =>
                      st \in {"OK", "CHANGED"}

\* C12 witness: throughput fell and is REGRESSED, a latency fell and is
\* IMPROVED, and a metric of neither kind changed
C12_Witness ==
    /\ Compared
    /\ \E i \in 1..Len(rows) :
          rows[i].metric = "requests_per_sec" /\ rows[i].status = "REGRESSED"
    /\ \E i \in 1..Len(rows) :
          rows[i].metric \in lower_is_better /\ rows[i].status = "IMPROVED"
    /\ \E i \in 1..Len(rows) :
          rows[i].metric = "errors" /\ rows[i].status = "CHANGED"

----------------------------------------------------------------------------
(* Properties of save mode *)

\* C13: with --save-baseline nothing is compared, whatever --current and
\* --baseline are; without --output the run exits 1 before loading the
\* results and writes no baseline; with --output and a readable results
\* file it writes one document holding created_at, description, metrics and
\* raw_data (the input document as loaded) and exits 0.
C13_SaveModeFirst ==
    SaveMode =>
        /\ pc # "compared" /\ ~Compared /\ rows = <<>>
        /\ args.baseline \notin loaded
        /\ (pc = "exit" /\ args.output = None) =>
              /\ exit_code = 1
              /\ loaded = {}
              /\ \A p \in Paths :
                    Loadable(p) =>
                       \/ "created_at" \notin DOMAIN load_json(p)
                       \/ load_json(p)["created_at"] # clock
        /\ (pc = "exit" /\ args.output # None /\ Loadable(args.save_baseline)) =>
              /\ exit_code = 0
              /\ Loadable(args.output)
              /\ LET written == load_json(args.output)
                     results == load_json(args.save_baseline)
                 IN  /\ DOMAIN written =
                          {"created_at", "description", "metrics", "raw_data"}
                     /\ written["created_at"] = clock
                     /\ written["description"] = args.description
                     /\ written["metrics"] = extract_metrics(results)
                     /\ written["raw_data"] = results

\* C13 witness: a save run given --current and --baseline too, both files
\* there, has written the baseline and exited 0
C13_Witness ==
    /\ pc = "exit" /\ SaveMode /\ Saved /\ exit_code = 0
    /\ args.current # None /\ args.baseline # None
    /\ Exists(args.current) /\ Exists(args.baseline)
    /\ DOMAIN load_json(args.output)["raw_data"] # {}

\* C14: every entry of a document's "metrics" mapping is in the extracted
\* metrics with the same value, whatever the summary, latencyPercentiles and
\* latencyDistribution shapes give for that name; with both latency shapes
\* in the document, p50/p90/p95/p99 are latencyDistribution.percentiles'.
C14_MetricsPassThrough ==
    (Saved /\ SaveMode) =>
        LET results == load_json(args.save_baseline)
            extracted == load_json(args.output)["metrics"]
            passthrough == IF "metrics" \in DOMAIN results
                           THEN results["metrics"] ELSE EmptyMap
            ms == [p50 |-> "p50_ms", p90 |-> "p90_ms",
                   p95 |-> "p95_ms", p99 |-> "p99_ms"]
        IN  /\ \A k \in DOMAIN passthrough :
                  k \in DOMAIN extracted /\ extracted[k] = passthrough[k]
            /\ (/\ "latencyPercentiles" \in DOMAIN results
                /\ "latencyDistribution" \in DOMAIN results
                /\ "percentiles" \in DOMAIN results["latencyDistribution"]) =>
                  LET dist == results["latencyDistribution"]["percentiles"]
                  IN  \A k \in DOMAIN ms :
                          ms[k] \notin DOMAIN passthrough =>
                             /\ ms[k] \in DOMAIN extracted
                             /\ extracted[ms[k]] =
                                  (IF k \in DOMAIN dist THEN dist[k] ELSE 0) * 1000

\* C14 witness: "metrics" overrides the p99_ms of both latency shapes, and
\* the distribution's missing p50 hides latencyPercentiles' p50
C14_Witness ==
    /\ Saved /\ SaveMode
    /\ LET results == load_json(args.save_baseline)
           extracted == load_json(args.output)["metrics"]
       IN  /\ {"latencyPercentiles", "latencyDistribution", "metrics"}
                 \subseteq DOMAIN results
           /\ "percentiles" \in DOMAIN results["latencyDistribution"]
           /\ "p99" \in DOMAIN results["latencyDistribution"]["percentiles"]
           /\ {"p50", "p99"} \subseteq DOMAIN results["latencyPercentiles"]
           /\ "p99_ms" \in DOMAIN results["metrics"]
           /\ extracted["p99_ms"] = 7
           /\ extracted["p50_ms"] = 0

----------------------------------------------------------------------------
(* Properties of the tile grid and the pyramid *)

\* the tile loops of the current level are over
LevelWritten == gen \in {"slide", "overlay"} /\ fx_pc = "tiles" /\ ty >= tiles_y

\* the tiles written for the current level
LevelTiles == {t \in fixtures[gen].tiles : t.level = level}

\* C15: for size >= tile_size >= 1 the tiles of every generated level
\* partition it: widths and heights are in 1..tile_size, the tile (tx, ty)
\* starts at (tx * tile_size, ty * tile_size) and stays inside the level,
\* and every pixel column and row of the level is in exactly one tile
\* column and row.
C15_TilesPartitionLevel ==
    (LevelWritten /\ fx_args.size >= fx_args.tile_size) =>
        LET ts == fx_args.tile_size
            W(t) == t.ppm.header[2]
            H(t) == t.ppm.header[3]
        IN  /\ Cardinality(LevelTiles) = tiles_x * tiles_y
            /\ \A t \in LevelTiles :
                  /\ W(t) \in 1..ts /\ H(t) \in 1..ts
                  /\ t.tx * ts + W(t) <= level_width
                  /\ t.ty * ts + H(t) <= level_height
                  /\ t.ppm.nbytes = 3 * W(t) * H(t)
            /\ \A x \in 0..(level_width - 1) : \A row \in 0..(tiles_y - 1) :
                  Cardinality({t \in LevelTiles :
                      /\ t.ty = row
                      /\ t.tx * ts <= x /\ x < t.tx * ts + W(t)}) = 1
            /\ \A y \in 0..(level_height - 1) : \A col \in 0..(tiles_x - 1) :
                  Cardinality({t \in LevelTiles :
                      /\ t.tx = col
                      /\ t.ty * ts <= y /\ y < t.ty * ts + H(t)}) = 1

\* C15 witness: a level whose size is no multiple of the tile size, its
\* last tile column narrower than the others
C15_Witness ==
    /\ LevelWritten
    /\ fx_args.size >= fx_args.tile_size
    /\ level_width % fx_args.tile_size # 0
    /\ \E t \in LevelTiles :
          t.tx > 0 /\ t.ppm.header[2] < fx_args.tile_size /\ t.ppm.header[2] >= 1

\* C16: for size >= tile_size >= 1 there are max_level + 1 >= 1 levels with
\* max_level = ceil(log2(size / tile_size)); level 0 is one tile; the highest
\* level is size x size; a level is never smaller than the level below it;
\* metadata.json's num_levels, manifest.json's levels and the number of level
\* directories of each generator are the same.
C16_PyramidLevels ==
    fx_args.size >= fx_args.tile_size =>
        /\ (gen \in {"slide", "overlay"} /\ fx_pc # "setup") =>
              /\ max_level >= 0
              /\ Pow2(max_level) * fx_args.tile_size >= fx_args.size
              /\ max_level > 0 =>
                    Pow2(max_level - 1) * fx_args.tile_size < fx_args.size
        /\ (gen \in {"slide", "overlay"} /\ fx_pc = "tiles") =>
              /\ level \in 0..max_level
              /\ level = 0 =>
                    /\ tiles_x = 1 /\ tiles_y = 1
                    /\ level_width <= fx_args.tile_size
                    /\ level_height <= fx_args.tile_size
              /\ level = max_level =>
                    level_width = fx_args.size /\ level_height = fx_args.size
              /\ level > 0 =>
                    \A d \in 1..fx_args.size :
                        IsCeilDiv(d, fx_args.size, Pow2(max_level - level + 1)) =>
                           d <= level_width /\ d <= level_height
        /\ gen = "done" =>
              /\ fixtures["slide"].level_dirs = 0..max_level
              /\ fixtures["overlay"].level_dirs = 0..max_level
              /\ fixtures["slide"].sidecar[1].num_levels = max_level + 1
              /\ fixtures["overlay"].sidecar[1].levels = max_level + 1
              /\ {t.level : t \in fixtures["slide"].tiles} = 0..max_level
              /\ {t.level : t \in fixtures["overlay"].tiles} = 0..max_level

\* C16 witness: a pyramid of three levels for a size that is no power-of-two
\* multiple of the tile size
C16_Witness ==
    /\ gen = "done"
    /\ fx_args.size = 5 /\ fx_args.tile_size = 2
    /\ fixtures["slide"].level_dirs = {0, 1, 2}
    /\ fixtures["overlay"].sidecar[1].levels = 3

----------------------------------------------------------------------------
(* Properties of a comparison against a baseline saved from the same results *)

\* --baseline is the baseline document saved from the --current document:
\* its raw_data member is what the --current file holds
SavedFromCurrent ==
    /\ CompareMode
    /\ Loadable(args.current) /\ Loadable(args.baseline)
    /\ \E i \in 1..Len(fs[args.baseline].text) :
          /\ fs[args.baseline].text[i][1] = "raw_data"
          /\ fs[args.baseline].text[i][2] = fs[args.current].text

\* C17: comparing a results document with the baseline saved from it, for a
\* threshold >= 0, passes with exit code 0: every metric of the document has
\* a row with a 0% change and status OK, and nothing is REGRESSED.
C17_SaveThenComparePasses ==
    (Compared /\ SavedFromCurrent /\ args.threshold >= 0) =>
        /\ passed = TRUE
        /\ pc = "exit" => exit_code = 0
        /\ \A k \in DOMAIN extract_metrics(load_json(args.current)) :
              RowsOf(k) # {}
        /\ \A i \in 1..Len(rows) :
              /\ ~rows[i].change_pct.inf
              /\ rows[i].change_pct.num = 0
              /\ rows[i].change_str = [text |-> "pct", sign |-> "", tenths |-> 0]
              /\ rows[i].status = "OK"

\* C17 witness: such a comparison with threshold 0 of a document with
\* several metrics, p99_ms among them, has exited
C17_Witness ==
    /\ pc = "exit" /\ Compared /\ SavedFromCurrent
    /\ args.threshold = 0
    /\ exit_code = 0
    /\ Len(rows) >= 4
    /\ RowsOf("p99_ms") # {}
    /\ \E i \in 1..Len(rows) : rows[i].curr_val # 0

====
